---- MODULE Spec2Model ----
(***************************************************************************)
(* Model of openapi_to_mcp.py: the OpenAPIToMCP generator.                 *)
(*                                                                         *)
(* Text is modelled at two grains.  Paths, HTTP method names and tool      *)
(* names go through character-level operations in the source (re.sub,     *)
(* split, lower, upper, capitalize, substring search), so they are         *)
(* sequences of one-character strings.  Every other string (property       *)
(* names, type names, descriptions, header names) is only copied or        *)
(* compared, so it is an atomic string.  A Python dict whose order the     *)
(* source iterates is a sequence of <<key, value>> pairs with distinct     *)
(* keys; a dict that is only looked up is a record whose DOMAIN is the set *)
(* of keys present.  dict.get(k) without default is a sequence of length   *)
(* at most one: <<>> is None, <<v>> is the value v.                        *)
(***************************************************************************)
EXTENDS Integers, Sequences, FiniteSets, TLC

VARIABLES paths, components, tools, interfaces, security_info, server_code, pc

vars == <<paths, components, tools, interfaces, security_info, server_code, pc>>

----------------------------------------------------------------------------
(* Python built-ins on dicts and strings *)

EmptyDict == [k \in {} |-> k]

HasKey(d, k) == k \in DOMAIN d

Get(d, k, default) == IF k \in DOMAIN d THEN d[k] ELSE default

GetOrNone(d, k) == IF k \in DOMAIN d THEN <<d[k]>> ELSE <<>>

Truthy(d) == DOMAIN d # {}

Keys(od) == [i \in 1..Len(od) |-> od[i][1]]

KeySet(od) == {od[i][1] : i \in 1..Len(od)}

Lookup(od, k) == od[CHOOSE i \in 1..Len(od) : od[i][1] = k][2]

RECURSIVE DictSet(_, _, _)
DictSet(od, k, v) ==
    IF od = <<>> THEN <<<<k, v>>>>
    ELSE IF Head(od)[1] = k THEN <<<<k, v>>>> \o Tail(od)
    ELSE <<Head(od)>> \o DictSet(Tail(od), k, v)

LowerLetters == <<"a","b","c","d","e","f","g","h","i","j","k","l","m",
                  "n","o","p","q","r","s","t","u","v","w","x","y","z">>

UpperLetters == <<"A","B","C","D","E","F","G","H","I","J","K","L","M",
                  "N","O","P","Q","R","S","T","U","V","W","X","Y","Z">>

LowerChar(c) ==
    IF \E i \in 1..Len(UpperLetters) : UpperLetters[i] = c
    THEN LowerLetters[CHOOSE i \in 1..Len(UpperLetters) : UpperLetters[i] = c]
    ELSE c

UpperChar(c) ==
    IF \E i \in 1..Len(LowerLetters) : LowerLetters[i] = c
    THEN UpperLetters[CHOOSE i \in 1..Len(LowerLetters) : LowerLetters[i] = c]
    ELSE c

Lower(s) == [i \in 1..Len(s) |-> LowerChar(s[i])]

Upper(s) == [i \in 1..Len(s) |-> UpperChar(s[i])]

\* first character upper-cased, the rest kept
CapitalizeKeepRest(s) ==
    IF s = <<>> THEN <<>> ELSE <<UpperChar(s[1])>> \o Tail(s)

\* str.capitalize(): first character upper-cased, every other lower-cased
Capitalize(s) ==
    IF s = <<>> THEN <<>> ELSE <<UpperChar(s[1])>> \o Lower(Tail(s))

\* needle in hay
Contains(hay, needle) ==
    \E i \in 0..(Len(hay) - Len(needle)) :
        \A j \in 1..Len(needle) : hay[i + j] = needle[j]

\* s.split(sep) for a one-character separator: every field, empty ones too
RECURSIVE SplitFrom(_, _, _)
SplitFrom(s, sep, cur) ==
    IF s = <<>> THEN <<cur>>
    ELSE IF Head(s) = sep THEN <<cur>> \o SplitFrom(Tail(s), sep, <<>>)
    ELSE SplitFrom(Tail(s), sep, Append(cur, Head(s)))

Split(s, sep) == SplitFrom(s, sep, <<>>)

RECURSIVE Join(_)
Join(words) == IF words = <<>> THEN <<>> ELSE Head(words) \o Join(Tail(words))

\* The end of the match of \{[^}]+\} that starts at i, or 0 when none starts
\* there: the first "}" after i closes it and at least one character lies
\* between the braces.
ParamMatchEnd(s, i) ==
    IF s[i] # "{" THEN 0
    ELSE IF \E j \in (i + 1)..Len(s) : s[j] = "}"
         THEN LET j == CHOOSE j \in (i + 1)..Len(s) :
                           /\ s[j] = "}"
                           /\ \A k \in (i + 1)..(j - 1) : s[k] # "}"
              IN  IF j >= i + 2 THEN j ELSE 0
         ELSE 0

\* re.sub(r'\{[^}]+\}', '', s): leftmost non-overlapping matches removed
RECURSIVE StripParamsFrom(_, _)
StripParamsFrom(s, i) ==
    IF i > Len(s) THEN <<>>
    ELSE IF ParamMatchEnd(s, i) # 0 THEN StripParamsFrom(s, ParamMatchEnd(s, i) + 1)
    ELSE <<s[i]>> \o StripParamsFrom(s, i + 1)

StripParams(s) == StripParamsFrom(s, 1)

GET == <<"G","E","T">>
POST == <<"P","O","S","T">>
PUT == <<"P","U","T">>
DELETE == <<"D","E","L","E","T","E">>
PATCH == <<"P","A","T","C","H">>

SupportedMethods == {Lower(GET), Lower(POST), Lower(PUT), Lower(DELETE), Lower(PATCH)}

----------------------------------------------------------------------------
(* Operation ID Synthesizer *)

MethodPrefix(path, method) ==
    IF Lower(method) = Lower(GET) THEN Lower(GET)
    ELSE IF Lower(method) = Lower(POST)
         THEN IF Contains(Lower(path), <<"c","r","e","a","t","e">>)
              THEN <<"c","r","e","a","t","e">>
              ELSE Lower(POST)
    ELSE IF Lower(method) = Lower(PUT) THEN <<"u","p","d","a","t","e">>
    ELSE IF Lower(method) = Lower(DELETE) THEN Lower(DELETE)
    ELSE Lower(method)

PathParts(path) == SelectSeq(Split(StripParams(path), "/"), LAMBDA part : part # <<>>)

generate_operation_id(path, method) ==
    LET parts == PathParts(path)
    IN  IF parts # <<>>
        THEN MethodPrefix(path, method)
                 \o Join([i \in 1..Len(parts) |-> Capitalize(parts[i])])
        ELSE MethodPrefix(path, method) \o <<"R","o","o","t">>

----------------------------------------------------------------------------
(* Input Schema Synthesizer *)

EmptySchema == [type |-> "object", properties |-> <<>>, required |-> <<>>]

ParamProperty(param) ==
    [type |-> Get(Get(param, "schema", [type |-> "string"]), "type", "string"),
     description |-> Get(param, "description", "")]

\* one "for param in parameters" loop, for the given location
RECURSIVE AddParameters(_, _, _)
AddParameters(schema, parameters, location) ==
    IF parameters = <<>> THEN schema
    ELSE LET param == Head(parameters)
             next == IF Get(param, "in", "") = location
                     THEN [schema EXCEPT
                             !.properties = DictSet(@, param.name, ParamProperty(param)),
                             !.required = IF Get(param, "required", FALSE)
                                          THEN Append(@, param.name) ELSE @]
                     ELSE schema
         IN  AddParameters(next, Tail(parameters), location)

\* A $ref string is kept as the list of its "/"-separated fields, so
\* "#/components/schemas/Pet" is <<"#", "components", "schemas", "Pet">>.
RefPrefix == <<"#", "components", "schemas">>

StartsWithRefPrefix(ref_path) ==
    /\ Len(ref_path) > Len(RefPrefix)
    /\ SubSeq(ref_path, 1, Len(RefPrefix)) = RefPrefix

SchemaByName(comps, schema_name) ==
    LET schemas == Get(comps, "schemas", <<>>)
    IN  IF schema_name \in KeySet(schemas) THEN Lookup(schemas, schema_name) ELSE EmptyDict

ResolveBodySchema(body_schema, comps) ==
    IF HasKey(body_schema, "$ref")
    THEN IF StartsWithRefPrefix(body_schema["$ref"])
         THEN SchemaByName(comps, body_schema["$ref"][Len(body_schema["$ref"])])
         ELSE body_schema
    ELSE body_schema

CopiedFields == {"type", "description", "enum", "minimum", "maximum"}

BodyPropertyRaw(prop_def) ==
    [k \in CopiedFields |->
        IF k = "type" THEN <<Get(prop_def, "type", "string")>>
        ELSE IF k = "description" THEN <<Get(prop_def, "description", "")>>
        ELSE GetOrNone(prop_def, k)]

\* values dropped by truthiness instead of by "is not None"
BodyPropertyDropFalsy(prop_def) ==
    LET raw == BodyPropertyRaw(prop_def)
        falsy(f) == \/ raw[f] = <<>>
                    \/ f \in {"minimum", "maximum"} /\ raw[f][1] = 0
                    \/ f \in {"type", "description"} /\ raw[f][1] = ""
                    \/ f = "enum" /\ raw[f][1] = <<>>
    IN  [k \in {f \in CopiedFields : ~falsy(f)} |-> raw[k][1]]

\* the entry of lines 191-197 with its None values removed (line 199)
BodyProperty(prop_def) ==
    LET raw == BodyPropertyRaw(prop_def)
    IN  [k \in {f \in CopiedFields : raw[f] # <<>>} |-> raw[k][1]]

RECURSIVE AddBodyProperties(_, _)
AddBodyProperties(props, properties) ==
    IF properties = <<>> THEN props
    ELSE AddBodyProperties(
             DictSet(props, Head(properties)[1], BodyProperty(Head(properties)[2])),
             Tail(properties))

BodySchemaOf(request_body) ==
    Get(Get(Get(request_body, "content", EmptyDict), "application/json", EmptyDict),
        "schema", EmptyDict)

\* the body's required names appended only when not yet required
AddRequestBodyDedup(schema, operation, comps) ==
    IF HasKey(operation, "requestBody") /\ Truthy(operation.requestBody)
    THEN LET body_schema == ResolveBodySchema(BodySchemaOf(operation.requestBody), comps)
         IN  IF Get(body_schema, "type", "") = "object"
             THEN [schema EXCEPT
                     !.properties = AddBodyProperties(@, Get(body_schema, "properties", <<>>)),
                     !.required = @ \o SelectSeq(Get(body_schema, "required", <<>>),
                                      LAMBDA r : \A i \in 1..Len(schema.required) :
                                                     schema.required[i] # r)]
             ELSE schema
    ELSE schema

AddRequestBody(schema, operation, comps) ==
    IF HasKey(operation, "requestBody") /\ Truthy(operation.requestBody)
    THEN LET body_schema == ResolveBodySchema(BodySchemaOf(operation.requestBody), comps)
         IN  IF Get(body_schema, "type", "") = "object"
             THEN [schema EXCEPT
                     !.properties = AddBodyProperties(@, Get(body_schema, "properties", <<>>)),
                     !.required = @ \o Get(body_schema, "required", <<>>)]
             ELSE schema
    ELSE schema

\* the request body merged before the parameters
generate_input_schema_body_first(operation, comps) ==
    LET parameters == Get(operation, "parameters", <<>>)
        withBody == AddRequestBody(EmptySchema, operation, comps)
        withPath == AddParameters(withBody, parameters, "path")
    IN  AddParameters(withPath, parameters, "query")

generate_input_schema(operation, comps) ==
    LET parameters == Get(operation, "parameters", <<>>)
        withPath == AddParameters(EmptySchema, parameters, "path")
        withQuery == AddParameters(withPath, parameters, "query")
    IN  AddRequestBody(withQuery, operation, comps)

----------------------------------------------------------------------------
(* Tool Descriptor Builder *)

generate_tool(path, method, operation, comps) ==
    [name |-> IF HasKey(operation, "operationId") /\ operation.operationId # <<>>
              THEN operation.operationId
              ELSE generate_operation_id(path, method),
     method |-> method,
     path |-> path,
     summary |-> Get(operation, "summary", ""),
     description |-> Get(operation, "description", Get(operation, "summary", "")),
     input_schema |-> generate_input_schema(operation, comps),
     responses |-> Get(operation, "responses", EmptyDict),
     request_body |-> GetOrNone(operation, "requestBody")]

\* the loop without its test of the method
RECURSIVE ToolsOfPathItemAnyMethod(_, _, _)
ToolsOfPathItemAnyMethod(path, path_item, comps) ==
    IF path_item = <<>> THEN <<>>
    ELSE <<generate_tool(path, Upper(Head(path_item)[1]), Head(path_item)[2], comps)>>
             \o ToolsOfPathItemAnyMethod(path, Tail(path_item), comps)

\* the inner loop of generate_tools over one path item
RECURSIVE ToolsOfPathItem(_, _, _)
ToolsOfPathItem(path, path_item, comps) ==
    IF path_item = <<>> THEN <<>>
    ELSE (IF Lower(Head(path_item)[1]) \in SupportedMethods
          THEN <<generate_tool(path, Upper(Head(path_item)[1]), Head(path_item)[2], comps)>>
          ELSE <<>>)
             \o ToolsOfPathItem(path, Tail(path_item), comps)

RECURSIVE generate_tools(_, _)
generate_tools(ps, comps) ==
    IF ps = <<>> THEN <<>>
    ELSE ToolsOfPathItem(Head(ps)[1], Head(ps)[2], comps) \o generate_tools(Tail(ps), comps)

----------------------------------------------------------------------------
(* Interface Text Generator.  A text is a sequence of lines, a line is a   *)
(* sequence of the pieces the f-string concatenates, <<>> is an empty line *)
(* and a type expression is a sequence of pieces too.                      *)

RECURSIVE JoinWith(_, _)
JoinWith(items, sep) ==
    IF items = <<>> THEN <<>>
    ELSE IF Len(items) = 1 THEN Head(items)
    ELSE Head(items) \o sep \o JoinWith(Tail(items), sep)

RECURSIVE get_typescript_type(_)
get_typescript_type(schema) ==
    LET schema_type == Get(schema, "type", "any")
    IN  IF schema_type = "string"
        THEN IF Get(schema, "enum", <<>>) # <<>>
             THEN JoinWith([i \in 1..Len(schema.enum) |-> <<"\"", schema.enum[i], "\"">>],
                           <<" | ">>)
             ELSE <<"string">>
        ELSE IF schema_type \in {"integer", "number"} THEN <<"number">>
        ELSE IF schema_type = "boolean" THEN <<"boolean">>
        ELSE IF schema_type = "array"
             THEN get_typescript_type(Get(schema, "items", EmptyDict)) \o <<"[]">>
        ELSE <<"any">>

\* the optional mark on the required fields instead
PropertyLinesInverted(prop_name, prop_def, required) ==
    (IF Get(prop_def, "description", "") # ""
     THEN << <<"  /** ", prop_def.description, " */">> >> ELSE <<>>)
    \o << <<"  ", prop_name,
            IF \E i \in 1..Len(required) : required[i] = prop_name THEN "?" ELSE "",
            ": ">> \o get_typescript_type(prop_def) \o <<";">> >>

\* the body of the loop over properties in _generate_interface
PropertyLines(prop_name, prop_def, required) ==
    (IF Get(prop_def, "description", "") # ""
     THEN << <<"  /** ", prop_def.description, " */">> >> ELSE <<>>)
    \o << <<"  ", prop_name,
            IF \E i \in 1..Len(required) : required[i] = prop_name THEN "" ELSE "?",
            ": ">> \o get_typescript_type(prop_def) \o <<";">> >>

generate_interface(name, schema) ==
    IF Get(schema, "type", "") # "object" THEN <<>>
    ELSE LET properties == Get(schema, "properties", <<>>)
             required == Get(schema, "required", <<>>)
         IN  << <<"interface ", name, " {">> >>
             \o Join([i \in 1..Len(properties) |->
                        PropertyLines(properties[i][1], properties[i][2], required)])
             \o << <<"}">> >>

generate_typescript_interfaces(comps) ==
    LET schemas == Get(comps, "schemas", <<>>)
        all == [i \in 1..Len(schemas) |-> generate_interface(schemas[i][1], schemas[i][2])]
    IN  JoinWith(SelectSeq(all, LAMBDA interface : interface # <<>>), << <<>> >>)

----------------------------------------------------------------------------
(* Artifact Renderer *)

get_security_info(comps) ==
    [schemes |-> Get(comps, "securitySchemes", <<>>)]

\* the last apiKey scheme instead of the first
RECURSIVE AuthHeadersOfLast(_)
AuthHeadersOfLast(schemes) ==
    IF schemes = <<>> THEN <<>>
    ELSE IF Get(schemes[Len(schemes)][2], "type", "") = "apiKey"
         THEN <<"'", Get(schemes[Len(schemes)][2], "name", "X-API-Key"), "': API_KEY,">>
    ELSE AuthHeadersOfLast(SubSeq(schemes, 1, Len(schemes) - 1))

RECURSIVE AuthHeadersOf(_)
AuthHeadersOf(schemes) ==
    IF schemes = <<>> THEN <<>>
    ELSE IF Get(Head(schemes)[2], "type", "") = "apiKey"
         THEN <<"'", Get(Head(schemes)[2], "name", "X-API-Key"), "': API_KEY,">>
    ELSE AuthHeadersOf(Tail(schemes))

generate_auth_headers(info) == AuthHeadersOf(Get(info, "schemes", <<>>))

generate_tool_list(ts) ==
    [i \in 1..Len(ts) |->
        [name |-> ts[i].name, description |-> ts[i].description,
         inputSchema |-> ts[i].input_schema]]

generate_tool_handlers(ts) ==
    [i \in 1..Len(ts) |->
        << <<"        case '", ts[i].name, "':">>,
           <<"          return await this.", ts[i].name, "(request.params.arguments);">> >>]

\* the body attached whatever the method
generate_request_config_any_method(tool) ==
    IF tool.request_body # <<>> /\ Truthy(tool.request_body[1])
    THEN <<"        data: args,">>
    ELSE <<>>

\* the lines that follow the url line of the axios call
generate_request_config(tool) ==
    IF /\ tool.request_body # <<>>
       /\ Truthy(tool.request_body[1])
       /\ Upper(tool.method) \in {POST, PUT, PATCH}
    THEN <<"        data: args,">>
    ELSE <<>>

\* one rendered method per tool; the fixed response and error handling text
\* of the template carries no value of the document and is left out
generate_tool_methods(ts) ==
    [i \in 1..Len(ts) |->
        [name |-> ts[i].name,
         method |-> Lower(ts[i].method),
         url |-> ts[i].path,
         request_config |-> generate_request_config(ts[i])]]

----------------------------------------------------------------------------
(* generate_mcp_server_code, one action per step *)

GenerateTools ==
    /\ pc = "start"
    /\ tools' = generate_tools(paths, components)
    /\ pc' = "tools"
    /\ UNCHANGED <<paths, components, interfaces, security_info, server_code>>

GenerateTypescriptInterfaces ==
    /\ pc = "tools"
    /\ interfaces' = generate_typescript_interfaces(components)
    /\ pc' = "interfaces"
    /\ UNCHANGED <<paths, components, tools, security_info, server_code>>

GetSecurityInfo ==
    /\ pc = "interfaces"
    /\ security_info' = get_security_info(components)
    /\ pc' = "security"
    /\ UNCHANGED <<paths, components, tools, interfaces, server_code>>

RenderServerCode ==
    /\ pc = "security"
    /\ server_code' = [interfaces |-> interfaces,
                       auth_headers |-> generate_auth_headers(security_info),
                       tool_list |-> generate_tool_list(tools),
                       tool_handlers |-> generate_tool_handlers(tools),
                       tool_methods |-> generate_tool_methods(tools)]
    /\ pc' = "done"
    /\ UNCHANGED <<paths, components, tools, interfaces, security_info>>

Next ==
    \/ GenerateTools
    \/ GenerateTypescriptInterfaces
    \/ GetSecurityInfo
    \/ RenderServerCode

----------------------------------------------------------------------------
(* __init__: the document the generator is constructed from *)

InitDocument(ps, comps) ==
    /\ paths = ps
    /\ components = comps
    /\ tools = <<>>
    /\ interfaces = <<>>
    /\ security_info = EmptyDict
    /\ server_code = EmptyDict
    /\ pc = "start"

SeqsUpTo(S, n) == UNION {[1..k -> S] : k \in 0..n}

Distinct(seq) == \A i, j \in 1..Len(seq) : i # j => seq[i] # seq[j]

OneOperation(path, method, operation) == << <<path, << <<method, operation>> >> >> >>

\* json.load of an object: a key met again keeps its place
RECURSIVE LoadPaths(_)
LoadPaths(flat) ==
    IF flat = <<>> THEN <<>>
    ELSE LET before == LoadPaths(SubSeq(flat, 1, Len(flat) - 1))
             e == flat[Len(flat)]
         IN  IF e[1] \in KeySet(before)
             THEN DictSet(before, e[1], DictSet(Lookup(before, e[1]), e[2], e[3]))
             ELSE Append(before, <<e[1], << <<e[2], e[3]>> >> >>)

JsonBody(schema) == [content |-> ("application/json" :> [schema |-> schema])]

(* documents for the operation-id synthesizer *)

MaxPathLen == 4

PathAlphabet == {"/", "{", "}", "a", "B"}

\* "/" followed by at most MaxPathLen characters
ShortPaths == {<<"/">> \o rest : rest \in UNION {[1..k -> PathAlphabet] : k \in 0..MaxPathLen}}

UsersPath == <<"/","u","s","e","r","s">>
UsersIdPath == <<"/","u","s","e","r","s","/","{","i","d","}">>
ItemsPath == <<"/","i","t","e","m","s">>

NamedPaths ==
    {UsersPath, UsersIdPath, ItemsPath,
     <<"/","u","s","e","r","P","r","o","f","i","l","e","s">>,
     <<"/","x","/","C","R","E","A","T","E">>,
     <<"/","c","r","e","a","t","e","U","s","e","r">>,
     <<"/","{","i","d","}">>,
     <<"/","v","1","/","{","a","}",".","j","s","o","n">>}

MethodKeys ==
    {<<"g","e","t">>, <<"P","o","s","t">>, PUT, <<"d","e","l","e","t","e">>,
     <<"p","a","t","c","h">>, <<"h","e","a","d">>}

GetUsersId == <<"g","e","t","U","s","e","r","s">>

InitNaming ==
    \/ \E path \in NamedPaths, method \in MethodKeys,
          operation \in {EmptyDict, [operationId |-> <<>>], [operationId |-> GetUsersId]} :
           InitDocument(OneOperation(path, method, operation), EmptyDict)
    \/ \E path \in ShortPaths, method \in MethodKeys :
           InitDocument(OneOperation(path, method, EmptyDict), EmptyDict)

SpecNaming == InitNaming /\ [][Next]_vars

(* documents with several operations *)

MaxOps == 2

ToolPaths == {UsersPath, UsersIdPath}

PetSchema ==
    [type |-> "object",
     properties |-> << <<"id", [type |-> "integer", minimum |-> 0]>>,
                       <<"name", [description |-> "pet name"]>> >>,
     required |-> <<"name", "zz">>]

ToolEntries ==
    LET body == [requestBody |-> JsonBody(PetSchema)]
        xml == [requestBody |-> [content |-> ("application/xml" :> [schema |-> PetSchema])]]
        empty == [requestBody |-> EmptyDict]
        declared == [operationId |-> GetUsersId]
    IN  {<<<<"g","e","t">>, EmptyDict>>,
         <<<<"g","e","t">>, body>>,
         <<POST, body>>, <<POST, EmptyDict>>, <<POST, empty>>,
         <<<<"P","u","t">>, xml>>,
         <<<<"d","e","l","e","t","e">>, body>>, <<<<"d","e","l","e","t","e">>, EmptyDict>>,
         <<<<"p","a","t","c","h">>, body>>, <<<<"P","a","t","c","h">>, declared>>,
         <<<<"h","e","a","d">>, EmptyDict>>, <<<<"O","P","T","I","O","N","S">>, body>>}

\* the one declared operationId of these documents sits under /users/{id}
ToolOps ==
    {op \in {<<path, e[1], e[2]>> : path \in ToolPaths, e \in ToolEntries} :
        HasKey(op[3], "operationId") => op[1] = UsersIdPath}

InitTools ==
    \E flat \in SeqsUpTo(ToolOps, MaxOps) :
        /\ flat # <<>>
        /\ Distinct([i \in 1..Len(flat) |-> <<flat[i][1], flat[i][2]>>])
        /\ InitDocument(LoadPaths(flat), EmptyDict)

SpecTools == InitTools /\ [][Next]_vars

(* documents for the input-schema synthesizer: one POST /items operation *)

MaxParams == 2

ParamSet ==
    {[name |-> n, in |-> loc] : n \in {"id", "q"}, loc \in {"path", "query", "header", "cookie"}}
    \cup {[name |-> n, in |-> loc, required |-> TRUE] :
              n \in {"id", "q"}, loc \in {"path", "query", "header"}}
    \cup {[name |-> "id", in |-> "path", required |-> TRUE,
           schema |-> [type |-> "integer"], description |-> "the id"],
          [name |-> "id", in |-> "query", required |-> FALSE, schema |-> EmptyDict],
          [name |-> "name", in |-> "query", required |-> TRUE, schema |-> [type |-> "boolean"]],
          [name |-> "q"]}

Ref(ref_path) == "$ref" :> ref_path

SchemaRegistry ==
    [schemas |-> << <<"Pet", PetSchema>>,
                    <<"Name", [type |-> "string"]>>,
                    <<"Link", Ref(<<"#", "components", "schemas", "Pet">>)>> >>]

Siblings ==
    [type |-> "object",
     properties |-> << <<"extra", [type |-> "number"]>> >>,
     required |-> <<"extra">>]

BodySchemas ==
    {PetSchema,
     [type |-> "object", required |-> <<"id", "zz">>],
     [type |-> "object", properties |-> << <<"q", [type |-> "integer"]>>,
                                            <<"id", [enum |-> <<"a", "b">>]>> >>],
     [type |-> "string"],
     [properties |-> << <<"id", [type |-> "integer"]>> >>, required |-> <<"id">>],
     EmptyDict,
     Ref(<<"#", "components", "schemas", "Pet">>),
     Ref(<<"#", "components", "schemas", "Missing">>),
     Ref(<<"#", "components", "schemas", "Name">>),
     Ref(<<"#", "components", "schemas", "Link">>),
     Ref(<<"#", "components", "schemas", "v2", "Pet">>),
     Ref(<<"#", "definitions", "Pet">>),
     Ref(<<"other.json#", "components", "schemas", "Pet">>),
     Ref(<<"#", "components", "schemas", "Missing">>) @@ Siblings,
     Ref(<<"#", "components", "schemas", "Pet">>) @@ Siblings,
     Ref(<<"#", "definitions", "Pet">>) @@ Siblings}

RequestBodies ==
    {JsonBody(b) : b \in BodySchemas}
    \cup {EmptyDict,
          [content |-> EmptyDict],
          [content |-> ("application/xml" :> [schema |-> PetSchema])],
          [content |-> ("application/json" :> EmptyDict)]}

\* a body property with any of the five copied fields present or absent
PropertyDefs ==
    {[k \in present |-> CASE k = "type" -> "integer"
                          [] k = "description" -> "a number"
                          [] k = "enum" -> <<1, 2>>
                          [] k = "minimum" -> 0
                          [] k = "maximum" -> 9
                          [] k = "format" -> "int32"] :
        present \in SUBSET (CopiedFields \cup {"format"})}

SchemaOperations ==
    {[parameters |-> ps] : ps \in SeqsUpTo(ParamSet, MaxParams)}
    \cup {[parameters |-> ps, requestBody |-> b] :
              ps \in SeqsUpTo(ParamSet, MaxParams), b \in {JsonBody(PetSchema), EmptyDict}}
    \cup {[parameters |-> ps, requestBody |-> b] :
              ps \in {<<>>,
                      <<[name |-> "id", in |-> "path", required |-> TRUE]>>,
                      <<[name |-> "id", in |-> "path", required |-> TRUE],
                        [name |-> "id", in |-> "query"],
                        [name |-> "zz", in |-> "header", required |-> TRUE]>>},
              b \in RequestBodies}
    \cup {[requestBody |-> JsonBody([type |-> "object",
                                     properties |-> << <<"n", d>> >>])] :
              d \in PropertyDefs}

InitSchema ==
    \E operation \in SchemaOperations :
        InitDocument(OneOperation(ItemsPath, Lower(POST), operation), SchemaRegistry)

SpecSchema == InitSchema /\ [][Next]_vars

(* documents for the interface generator *)

MaxSchemas == 2

SchemaNames == {"Pet", "Tag", "Id"}

IdOnlySchema ==
    [type |-> "object", properties |-> << <<"id", [type |-> "integer"]>> >>,
     required |-> <<"id">>]

FieldDefs ==
    {[type |-> "integer"], [type |-> "number"], [type |-> "boolean"], [type |-> "string"],
     [type |-> "string", enum |-> <<"a", "b">>], [type |-> "string", enum |-> <<>>],
     [type |-> "array", items |-> [type |-> "array", items |-> [type |-> "integer"]]],
     [type |-> "array"], [type |-> "object"], [type |-> "date"], EmptyDict,
     [type |-> "string", description |-> "a text"], [description |-> ""]}

RequiredLists == {<<>>, <<"id">>, <<"name", "id">>, <<"zz">>}

ObjectSchemas ==
    {[type |-> "object", properties |-> props, required |-> req] :
        props \in {<<>>} \cup {<< <<"id", d>> >> : d \in FieldDefs}
                  \cup {<< <<"name", d>>, <<"id", e>> >> : d, e \in FieldDefs},
        req \in RequiredLists}
    \cup {[type |-> "object", properties |-> << <<"id", d>> >>] : d \in FieldDefs}

SmallSchemas ==
    {IdOnlySchema,
     [type |-> "object",
      properties |-> << <<"name", [type |-> "string", description |-> "a text"]>>,
                        <<"id", [type |-> "integer"]>> >>,
      required |-> <<"name">>],
     [type |-> "object"],
     [type |-> "string", enum |-> <<"a", "b">>],
     [type |-> "array", items |-> [type |-> "string"]],
     [properties |-> << <<"id", [type |-> "integer"]>> >>, required |-> <<"id">>],
     [type |-> "Object", properties |-> << <<"id", [type |-> "integer"]>> >>],
     EmptyDict}

InitInterfaces ==
    \/ \E name \in SchemaNames, schema \in ObjectSchemas :
           InitDocument(OneOperation(ItemsPath, Lower(GET), EmptyDict),
                        [schemas |-> << <<name, schema>> >>])
    \/ \E names \in SeqsUpTo(SchemaNames, MaxSchemas) :
           /\ Distinct(names)
           /\ \E defs \in [1..Len(names) -> SmallSchemas] :
                  InitDocument(OneOperation(ItemsPath, Lower(GET), EmptyDict),
                               [schemas |-> [i \in 1..Len(names) |-> <<names[i], defs[i]>>]])
    \/ InitDocument(OneOperation(ItemsPath, Lower(GET), EmptyDict), EmptyDict)

SpecInterfaces == InitInterfaces /\ [][Next]_vars

(* documents for the authentication header *)

MaxSchemes == 3

SchemeNames == <<"first", "second", "third", "fourth">>

SecuritySchemes ==
    {[type |-> "apiKey", name |-> "X-Api-Key", in |-> "header"],
     [type |-> "apiKey", name |-> "X-Other", in |-> "header"],
     [type |-> "apiKey", name |-> "api_key", in |-> "query"],
     [type |-> "apiKey"],
     [type |-> "http", scheme |-> "bearer"],
     [type |-> "oauth2", name |-> "X-OAuth"],
     EmptyDict}

InitAuth ==
    \/ \E n \in 0..MaxSchemes : \E schemes \in [1..n -> SecuritySchemes] :
           InitDocument(OneOperation(ItemsPath, Lower(GET), EmptyDict),
                        [securitySchemes |->
                            [i \in 1..n |-> <<SchemeNames[i], schemes[i]>>]])
    \/ InitDocument(OneOperation(ItemsPath, Lower(GET), EmptyDict), EmptyDict)

SpecAuth == InitAuth /\ [][Next]_vars

----------------------------------------------------------------------------
(* Properties.  The operations of the document, in document order. *)

RECURSIVE OperationsOf(_)
OperationsOf(ps) ==
    IF ps = <<>> THEN <<>>
    ELSE [i \in 1..Len(Head(ps)[2]) |->
             [path |-> Head(ps)[1], method |-> Head(ps)[2][i][1],
              operation |-> Head(ps)[2][i][2]]]
         \o OperationsOf(Tail(ps))

IsSupported(op) ==
    \E m \in {GET, POST, PUT, DELETE, PATCH} : Upper(op.method) = m

SupportedOperations == SelectSeq(OperationsOf(paths), IsSupported)

HasDeclaredId(op) ==
    HasKey(op.operation, "operationId") /\ Len(op.operation.operationId) > 0

ToolsGenerated == pc # "start"

\* C1: the names of the descriptors returned by generate_tools are pairwise
\* distinct, whether declared or synthesized.
C1_NamesPairwiseDistinct ==
    ToolsGenerated =>
        \A i, j \in 1..Len(tools) : i # j => tools[i].name # tools[j].name

\* C2 as stated: every (path, method) entry of the document, whatever the
\* method, yields exactly one descriptor carrying that path and method, in
\* document order.
C2_EveryEntryYieldsOneDescriptor ==
    ToolsGenerated =>
        /\ Len(tools) = Len(OperationsOf(paths))
        /\ \A i \in 1..Len(tools) :
               /\ tools[i].path = OperationsOf(paths)[i].path
               /\ Lower(tools[i].method) = Lower(OperationsOf(paths)[i].method)

\* C2 amended: every entry whose method is get, post, put, delete or patch
\* (in any letter case) yields exactly one descriptor carrying that path and
\* the upper-cased method, in document order; every other entry yields none.
C2_SupportedEntriesYieldOneDescriptor ==
    ToolsGenerated =>
        /\ Len(tools) = Len(SupportedOperations)
        /\ \A i \in 1..Len(tools) :
               /\ tools[i].path = SupportedOperations[i].path
               /\ tools[i].method = Upper(SupportedOperations[i].method)
               /\ Lower(tools[i].method) = Lower(SupportedOperations[i].method)

C2_Witness ==
    /\ ToolsGenerated
    /\ Len(paths) = 2
    /\ Len(OperationsOf(paths)) = 2
    /\ ~IsSupported(OperationsOf(paths)[1])
    /\ IsSupported(OperationsOf(paths)[2])
    /\ Len(tools) = 1
    /\ tools[1].path = paths[2][1]

(* the synthesized name, as the specification words it *)

StatedPrefix(path, method) ==
    CASE Lower(method) = <<"g","e","t">> -> <<"g","e","t">>
      [] Lower(method) = <<"p","o","s","t">> ->
             IF \E i \in 1..Len(path) :
                    /\ i + 5 <= Len(path)
                    /\ Lower(SubSeq(path, i, i + 5)) = <<"c","r","e","a","t","e">>
             THEN <<"c","r","e","a","t","e">> ELSE <<"p","o","s","t">>
      [] Lower(method) = <<"p","u","t">> -> <<"u","p","d","a","t","e">>
      [] Lower(method) = <<"d","e","l","e","t","e">> -> <<"d","e","l","e","t","e">>
      [] OTHER -> Lower(method)

\* the maximal runs of characters other than "/", left to right
SegmentStarts(s) == {i \in 1..Len(s) : s[i] # "/" /\ (i = 1 \/ s[i - 1] = "/")}

SegmentEnd(s, i) ==
    CHOOSE j \in i..Len(s) :
        /\ \A k \in i..j : s[k] # "/"
        /\ (j = Len(s) \/ s[j + 1] = "/")

RECURSIVE SegmentsFrom(_, _)
SegmentsFrom(s, starts) ==
    IF starts = {} THEN <<>>
    ELSE LET i == CHOOSE x \in starts : \A y \in starts : x <= y
         IN  <<SubSeq(s, i, SegmentEnd(s, i))>> \o SegmentsFrom(s, starts \ {i})

Segments(s) == SegmentsFrom(s, SegmentStarts(s))

FirstUpperRestUnchanged(seg) ==
    [i \in 1..Len(seg) |-> IF i = 1 THEN UpperChar(seg[i]) ELSE seg[i]]

FirstUpperRestLower(seg) ==
    [i \in 1..Len(seg) |-> IF i = 1 THEN UpperChar(seg[i]) ELSE LowerChar(seg[i])]

StatedName(path, method, Word(_)) ==
    LET segs == Segments(StripParams(path))
    IN  StatedPrefix(path, method)
        \o (IF segs = <<>> THEN <<"R","o","o","t">>
            ELSE Join([i \in 1..Len(segs) |-> Word(segs[i])]))

\* C3 as stated: without a declared operationId the name is the verb prefix
\* followed by each remaining path segment with its first letter upper-cased
\* and the rest of the segment unchanged, or by Root when no segment remains.
C3_NameKeepsRestOfSegment ==
    ToolsGenerated =>
        /\ Len(tools) = Len(SupportedOperations)
        /\ \A i \in 1..Len(tools) :
               ~HasDeclaredId(SupportedOperations[i]) =>
                   tools[i].name = StatedName(SupportedOperations[i].path,
                                              SupportedOperations[i].method,
                                              FirstUpperRestUnchanged)

\* C3 amended: each remaining segment has its first letter upper-cased and
\* every other letter lower-cased.
C3_NameLowersRestOfSegment ==
    ToolsGenerated =>
        /\ Len(tools) = Len(SupportedOperations)
        /\ \A i \in 1..Len(tools) :
               /\ ~HasDeclaredId(SupportedOperations[i]) =>
                      tools[i].name = StatedName(SupportedOperations[i].path,
                                                 SupportedOperations[i].method,
                                                 FirstUpperRestLower)
               /\ (/\ tools[i].path = UsersIdPath
                   /\ tools[i].method = GET
                   /\ ~HasDeclaredId(SupportedOperations[i]))
                      => tools[i].name = <<"g","e","t","U","s","e","r","s">>
               /\ (/\ tools[i].path = ItemsPath
                   /\ tools[i].method = POST
                   /\ ~HasDeclaredId(SupportedOperations[i]))
                      => tools[i].name = <<"p","o","s","t","I","t","e","m","s">>

C3_Witness ==
    /\ ToolsGenerated
    /\ Len(tools) = 1
    /\ ~HasDeclaredId(SupportedOperations[1])
    /\ tools[1].path = <<"/","x","/","C","R","E","A","T","E">>
    /\ tools[1].method = POST
    /\ tools[1].name = <<"c","r","e","a","t","e","X","C","r","e","a","t","e">>

(* the rendered invocation routines *)

Rendered == pc = "done"

DataLine == "        data: args,"

AttachesBody(routine) ==
    \E k \in 1..Len(routine.request_config) : routine.request_config[k] = DataLine

\* an operation declares a request body when its requestBody is present and
\* is not the empty object
DeclaresRequestBody(op) ==
    HasKey(op.operation, "requestBody") /\ op.operation.requestBody # EmptyDict

\* C4: the rendered routine of a tool carries the line "data: args" exactly
\* when its operation declared a request body and its method is POST, PUT or
\* PATCH; the routines of GET and DELETE never carry it.
C4_BodyAttachedOnlyForPostPutPatch ==
    Rendered =>
        /\ Len(server_code.tool_methods) = Len(SupportedOperations)
        /\ \A i \in 1..Len(server_code.tool_methods) :
               LET routine == server_code.tool_methods[i]
                   op == SupportedOperations[i]
               IN  /\ routine.url = op.path
                   /\ routine.method = Lower(op.method)
                   /\ AttachesBody(routine) <=>
                          /\ DeclaresRequestBody(op)
                          /\ routine.method \in {<<"p","o","s","t">>, <<"p","u","t">>,
                                                 <<"p","a","t","c","h">>}
                   /\ routine.method \in {<<"g","e","t">>, <<"d","e","l","e","t","e">>}
                          => ~AttachesBody(routine)

C4_Witness ==
    /\ Rendered
    /\ Len(server_code.tool_methods) = 2
    /\ server_code.tool_methods[1].method = <<"d","e","l","e","t","e">>
    /\ DeclaresRequestBody(SupportedOperations[1])
    /\ ~AttachesBody(server_code.tool_methods[1])
    /\ server_code.tool_methods[2].method = <<"p","u","t">>
    /\ DeclaresRequestBody(SupportedOperations[2])
    /\ AttachesBody(server_code.tool_methods[2])

(* the rendered interfaces *)

InterfacesGenerated == pc \notin {"start", "tools"}

Schemas == Get(components, "schemas", <<>>)

HeaderLine(name) == <<"interface ", name, " {">>

IsObjectSchema(schema) == HasKey(schema, "type") /\ schema.type = "object"

HeaderIndex(name) == CHOOSE k \in 1..Len(interfaces) : interfaces[k] = HeaderLine(name)

\* the lines of the block of the named interface between its header and the
\* first closing brace after it
BlockBody(name) ==
    LET h == HeaderIndex(name)
        c == CHOOSE k \in (h + 1)..Len(interfaces) :
                 /\ interfaces[k] = <<"}">>
                 /\ \A m \in (h + 1)..(k - 1) : interfaces[m] # <<"}">>
    IN  SubSeq(interfaces, h + 1, c - 1)

IsFieldLine(line) == Len(line) >= 6 /\ line[1] = "  " /\ line[4] = ": "

FieldLines(name) == SelectSeq(BlockBody(name), IsFieldLine)

\* C5: an interface block is rendered for a schema of components.schemas
\* exactly when its type is 'object'; the block has one field line per
\* property, in declaration order, and a field carries no '?' exactly when its
\* name is in the schema's own required list.  The schema with the single
\* required integer property id renders the single field "id: number;".
C5_InterfacePerObjectSchema ==
    InterfacesGenerated =>
        /\ Cardinality({k \in 1..Len(interfaces) :
                           interfaces[k] # <<>> /\ interfaces[k][1] = "interface "})
               = Cardinality({i \in 1..Len(Schemas) : IsObjectSchema(Schemas[i][2])})
        /\ \A i \in 1..Len(Schemas) :
               LET name == Schemas[i][1]
                   schema == Schemas[i][2]
                   props == Get(schema, "properties", <<>>)
                   required == Get(schema, "required", <<>>)
               IN  /\ (\E k \in 1..Len(interfaces) : interfaces[k] = HeaderLine(name))
                          <=> IsObjectSchema(schema)
                   /\ IsObjectSchema(schema) =>
                          /\ Len(FieldLines(name)) = Len(props)
                          /\ \A f \in 1..Len(props) :
                                 /\ FieldLines(name)[f][2] = props[f][1]
                                 /\ FieldLines(name)[f][3] \in {"", "?"}
                                 /\ FieldLines(name)[f][3] = "" <=>
                                        \E r \in 1..Len(required) : required[r] = props[f][1]
                   /\ schema = IdOnlySchema =>
                          BlockBody(name) = << <<"  ", "id", "", ": ", "number", ";">> >>

C5_Witness ==
    /\ InterfacesGenerated
    /\ Len(Schemas) = 2
    /\ ~IsObjectSchema(Schemas[1][2])
    /\ IsObjectSchema(Schemas[2][2])
    /\ Len(Get(Schemas[2][2], "properties", <<>>)) = 2
    /\ Len(FieldLines(Schemas[2][1])) = 2
    /\ FieldLines(Schemas[2][1])[1][3] = ""
    /\ FieldLines(Schemas[2][1])[2][3] = "?"
    /\ interfaces[1] = HeaderLine(Schemas[2][1])

(* the authentication header *)

SecuritySchemesOf == Get(components, "securitySchemes", <<>>)

ApiKeyPositions ==
    {i \in 1..Len(SecuritySchemesOf) :
        /\ HasKey(SecuritySchemesOf[i][2], "type")
        /\ SecuritySchemesOf[i][2].type = "apiKey"}

FirstApiKey ==
    SecuritySchemesOf[CHOOSE i \in ApiKeyPositions : \A j \in ApiKeyPositions : i <= j][2]

\* C6: the request configuration has an authentication header line exactly
\* when some security scheme has type 'apiKey'; the line is then the single
\* line binding the header name of the first such scheme (X-API-Key when the
\* scheme names none) to API_KEY, and nothing is rendered otherwise.
C6_AuthHeaderOfFirstApiKeyScheme ==
    Rendered =>
        /\ server_code.auth_headers # <<>> <=> ApiKeyPositions # {}
        /\ ApiKeyPositions # {} =>
               server_code.auth_headers =
                   <<"'",
                     IF HasKey(FirstApiKey, "name") THEN FirstApiKey.name ELSE "X-API-Key",
                     "': API_KEY,">>

C6_Witness ==
    /\ Rendered
    /\ Len(SecuritySchemesOf) = 3
    /\ ApiKeyPositions = {2, 3}
    /\ Get(SecuritySchemesOf[2][2], "name", "") = "X-Api-Key"
    /\ Get(SecuritySchemesOf[3][2], "name", "") = "X-Other"
    /\ server_code.auth_headers = <<"'", "X-Api-Key", "': API_KEY,">>

(* the input schema of the single operation of a document *)

TheOperation == OperationsOf(paths)[1].operation

Parameters == Get(TheOperation, "parameters", <<>>)

ParametersIn(location) ==
    SelectSeq(Parameters, LAMBDA p : HasKey(p, "in") /\ p["in"] = location)

NamesIn(location) == {ParametersIn(location)[i].name : i \in 1..Len(ParametersIn(location))}

\* the last parameter of that name at that location
LastNamed(location, name) ==
    LET ps == ParametersIn(location)
    IN  ps[CHOOSE i \in 1..Len(ps) :
               ps[i].name = name /\ \A j \in (i + 1)..Len(ps) : ps[j].name # name]

RequiredNamesIn(location) ==
    LET marked == SelectSeq(ParametersIn(location),
                            LAMBDA p : HasKey(p, "required") /\ p.required)
    IN  [i \in 1..Len(marked) |-> marked[i].name]

\* the schema node under requestBody.content['application/json'].schema
BodyNode ==
    IF ~HasKey(TheOperation, "requestBody") THEN EmptyDict
    ELSE IF ~HasKey(TheOperation.requestBody, "content") THEN EmptyDict
    ELSE IF ~HasKey(TheOperation.requestBody.content, "application/json") THEN EmptyDict
    ELSE IF ~HasKey(TheOperation.requestBody.content["application/json"], "schema")
         THEN EmptyDict
    ELSE TheOperation.requestBody.content["application/json"].schema

IsRef(node) == HasKey(node, "$ref")

PointsIntoRegistry(node) ==
    /\ Len(node["$ref"]) >= 4
    /\ node["$ref"][1] = "#"
    /\ node["$ref"][2] = "components"
    /\ node["$ref"][3] = "schemas"

RefTargetName(node) == node["$ref"][Len(node["$ref"])]

IsResolvable(node) ==
    /\ PointsIntoRegistry(node)
    /\ \E i \in 1..Len(Schemas) : Schemas[i][1] = RefTargetName(node)

RefTarget(node) ==
    Schemas[CHOOSE i \in 1..Len(Schemas) : Schemas[i][1] = RefTargetName(node)][2]

\* the body schema the synthesizer works on after its $ref step
BodySchemaUsed ==
    IF IsRef(BodyNode) /\ PointsIntoRegistry(BodyNode)
    THEN IF IsResolvable(BodyNode) THEN RefTarget(BodyNode) ELSE EmptyDict
    ELSE BodyNode

\* the body schema when the $ref alone governs a node that carries one
BodySchemaGovernedByRef ==
    IF IsRef(BodyNode)
    THEN IF IsResolvable(BodyNode) THEN RefTarget(BodyNode) ELSE EmptyDict
    ELSE BodyNode

BodyPropertiesOf(schema) ==
    IF IsObjectSchema(schema) THEN Get(schema, "properties", <<>>) ELSE <<>>

BodyRequiredOf(schema) ==
    IF IsObjectSchema(schema) THEN Get(schema, "required", <<>>) ELSE <<>>

InputSchema == tools[1].input_schema

SchemaBuilt == pc # "start" /\ Len(tools) = 1

StatedParamEntry(p) ==
    [type |-> IF HasKey(p, "schema") /\ HasKey(p.schema, "type")
              THEN p.schema.type ELSE "string",
     description |-> IF HasKey(p, "description") THEN p.description ELSE ""]

\* C7: properties are merged path parameters, then query parameters, then
\* body properties, the latest step winning a shared name; the keys are
\* exactly the path names, query names and object-body property names;
\* header and cookie parameters give neither a property nor a required entry.
C7_MergeOrderLastWriteWins ==
    SchemaBuilt =>
        LET body == BodyPropertiesOf(BodySchemaUsed)
            props == InputSchema.properties
        IN  /\ Distinct(Keys(props))
            /\ KeySet(props) = NamesIn("path") \cup NamesIn("query") \cup KeySet(body)
            /\ \A k \in KeySet(props) :
                   IF k \in KeySet(body)
                   THEN Lookup(props, k) = BodyProperty(Lookup(body, k))
                   ELSE IF k \in NamesIn("query")
                        THEN Lookup(props, k) = StatedParamEntry(LastNamed("query", k))
                        ELSE Lookup(props, k) = StatedParamEntry(LastNamed("path", k))
            /\ \A i \in 1..Len(Parameters) :
                   (/\ HasKey(Parameters[i], "in")
                    /\ Parameters[i]["in"] \in {"header", "cookie"}
                    /\ Parameters[i].name \notin NamesIn("path") \cup NamesIn("query")
                    /\ \A r \in 1..Len(BodyRequiredOf(BodySchemaUsed)) :
                           BodyRequiredOf(BodySchemaUsed)[r] # Parameters[i].name)
                       => /\ Parameters[i].name \notin KeySet(props) \ KeySet(body)
                          /\ \A r \in 1..Len(InputSchema.required) :
                                 InputSchema.required[r] # Parameters[i].name

C7_Witness ==
    /\ SchemaBuilt
    /\ Len(Parameters) = 3
    /\ NamesIn("path") = {"id"}
    /\ NamesIn("query") = {"id"}
    /\ NamesIn("header") = {"zz"}
    /\ BodyNode = [type |-> "object",
                   properties |-> << <<"q", [type |-> "integer"]>>,
                                     <<"id", [enum |-> <<"a", "b">>]>> >>]
    /\ InputSchema.properties =
           << <<"id", [type |-> "string", description |-> "", enum |-> <<"a", "b">>]>>,
              <<"q", [type |-> "integer", description |-> ""]>> >>

\* C8 as stated: a body property entry copies type (default 'string'),
\* description, enum, minimum and maximum, and a field absent from the source
\* property is absent from the entry.
C8_AbsentFieldsOmitted ==
    SchemaBuilt =>
        LET body == BodyPropertiesOf(BodySchemaGovernedByRef)
        IN  \A i \in 1..Len(body) :
                LET source == body[i][2]
                    entry == Lookup(InputSchema.properties, body[i][1])
                IN  /\ DOMAIN entry = {"type"} \cup (DOMAIN source \cap CopiedFields)
                    /\ entry.type = (IF HasKey(source, "type") THEN source.type ELSE "string")
                    /\ \A k \in DOMAIN entry \ {"type"} : entry[k] = source[k]

\* C8 amended: type (default 'string') and description (default the empty
\* string) are always in the entry; enum, minimum and maximum are copied when
\* the source has them and are absent from the entry otherwise; nothing else
\* is copied.
C8_TypeAndDescriptionDefaulted ==
    SchemaBuilt =>
        LET body == BodyPropertiesOf(BodySchemaGovernedByRef)
        IN  \A i \in 1..Len(body) :
                LET source == body[i][2]
                    entry == Lookup(InputSchema.properties, body[i][1])
                IN  /\ DOMAIN entry = {"type", "description"}
                           \cup (DOMAIN source \cap {"enum", "minimum", "maximum"})
                    /\ entry.type = (IF HasKey(source, "type") THEN source.type ELSE "string")
                    /\ entry.description =
                           (IF HasKey(source, "description") THEN source.description ELSE "")
                    /\ \A k \in DOMAIN entry \ {"type", "description"} : entry[k] = source[k]

C8_Witness ==
    /\ SchemaBuilt
    /\ BodyPropertiesOf(BodyNode) = << <<"n", [minimum |-> 0, format |-> "int32"]>> >>
    /\ InputSchema.properties =
           << <<"n", [type |-> "string", description |-> "", minimum |-> 0]>> >>

StatedParamsOnlySchema ==
    [type |-> "object",
     properties |-> AddParameters(AddParameters(EmptySchema, Parameters, "path"),
                                  Parameters, "query").properties,
     required |-> RequiredNamesIn("path") \o RequiredNamesIn("query")]

\* C9: a body schema whose $ref cannot be resolved into the registry, or
\* whose resolved schema is not of type 'object', contributes nothing: the
\* input schema is the one of the path and query parameters alone.  A node
\* with $ref is governed by the ref and not by its sibling type, properties
\* and required, and only one hop is followed.
C9_UnresolvedOrNonObjectBodyContributesNothing ==
    SchemaBuilt =>
        /\ ~IsObjectSchema(BodySchemaGovernedByRef) => InputSchema = StatedParamsOnlySchema
        /\ (IsRef(BodyNode) /\ IsObjectSchema(BodySchemaGovernedByRef)) =>
               InputSchema.required =
                   StatedParamsOnlySchema.required \o BodyRequiredOf(BodySchemaGovernedByRef)

\* C10: required is the names of the required path parameters, then of the
\* required query parameters, then the body schema's own required list in
\* full, nothing removed and nothing deduplicated.
C10_RequiredIsConcatenation ==
    SchemaBuilt =>
        InputSchema.required =
            RequiredNamesIn("path") \o RequiredNamesIn("query")
                \o BodyRequiredOf(BodySchemaUsed)

C10_Witness ==
    /\ SchemaBuilt
    /\ RequiredNamesIn("path") = <<"id">>
    /\ RequiredNamesIn("query") = <<"name">>
    /\ BodyNode = PetSchema
    /\ InputSchema.required = <<"id", "name", "name", "zz">>
    /\ "zz" \notin KeySet(InputSchema.properties)

====
